---- MODULE Spec2Model ----
(***************************************************************************)
(* Model of weightedstate.survival.weighted_aalen_johansen.                *)
(*                                                                         *)
(* The function is pure: three aligned series go in, one table comes out.  *)
(* The state is the three input series, the position of the one call and   *)
(* its outcome.  Init draws the inputs from bounded sets; the action Call  *)
(* applies the function.  Spec enumerates the aligned calls inside the     *)
(* function's domain (codes 0..2, weights >= 0); SpecAny enumerates every  *)
(* triple of series, aligned or not, with an unknown code and a negative   *)
(* weight as well.  Both include the calls the repository's tests make.    *)
(*                                                                         *)
(* The polars operations the function is written in (DataFrame, group_by,  *)
(* agg, sort, cum_sum, cum_prod, shift, column arithmetic) are modelled by *)
(* what they compute on the columns.                                       *)
(*                                                                         *)
(* Numbers.  A Float64 cell is modelled by its exact value: a rational     *)
(* <<n, d>> in lowest terms with d > 0, or one of the three IEEE special   *)
(* values, written with denominator 0: NaN = <<0,0>>, +inf = <<1,0>>,      *)
(* -inf = <<-1,0>>.  Arithmetic on finite values is exact (the arithmetic  *)
(* the specification's invariants are stated in); the special values       *)
(* follow IEEE 754: x/0 is an infinity, 0/0 and inf-inf and 0*inf are NaN, *)
(* NaN propagates, and every ordered comparison with NaN is false.         *)
(* The rounding of Float64 results is not modelled.                        *)
(***************************************************************************)
EXTENDS Integers, Sequences, FiniteSets, TLC

\* ------------------------------------------------------------------ bounds
\* The most observations of the calls Spec enumerates.
MaxN == 2

\* The longest series of the calls SpecAny enumerates.
MaxLen == 2

\* ----------------------------------------------------------- exact numbers
Abs(x) == IF x < 0 THEN -x ELSE x

Sgn(x) == IF x < 0 THEN -1 ELSE IF x > 0 THEN 1 ELSE 0

RECURSIVE GCD(_, _)
GCD(a, b) == IF b = 0 THEN a ELSE GCD(b, a % b)

\* <<n, d>> in lowest terms with a positive denominator; d = 0 gives a special.
Norm(n, d) ==
    IF d = 0 THEN <<Sgn(n), 0>>
    ELSE LET g == GCD(Abs(n), Abs(d))
         IN  <<(Sgn(d) * n) \div g, Abs(d) \div g>>

NaN == <<0, 0>>
PosInf == <<1, 0>>
NegInf == <<-1, 0>>
Zero == <<0, 1>>
One == <<1, 1>>

IsNaN(a) == a = NaN
IsFinite(a) == a[2] # 0

Add(a, b) ==
    IF IsNaN(a) \/ IsNaN(b) THEN NaN
    ELSE IF ~IsFinite(a) /\ ~IsFinite(b) THEN (IF a = b THEN a ELSE NaN)
    ELSE IF ~IsFinite(a) THEN a
    ELSE IF ~IsFinite(b) THEN b
    ELSE Norm(a[1] * b[2] + b[1] * a[2], a[2] * b[2])

Neg(a) == <<-a[1], a[2]>>

Sub(a, b) == Add(a, Neg(b))

Mul(a, b) ==
    IF IsNaN(a) \/ IsNaN(b) THEN NaN
    ELSE IF ~IsFinite(a) \/ ~IsFinite(b)
         THEN <<Sgn(a[1]) * Sgn(b[1]), 0>>
    ELSE Norm(a[1] * b[1], a[2] * b[2])

\* Mutant of Div: a division guarded against a zero divisor, giving 0.
Div_guarded(a, b) ==
    IF IsNaN(a) \/ IsNaN(b) THEN NaN
    ELSE IF ~IsFinite(a) /\ ~IsFinite(b) THEN NaN
    ELSE IF ~IsFinite(a) THEN <<a[1] * (IF b[1] < 0 THEN -1 ELSE 1), 0>>
    ELSE IF ~IsFinite(b) THEN Zero
    ELSE IF b[1] = 0 THEN Zero
    ELSE Norm(a[1] * b[2], a[2] * b[1])

\* True division of two Float64 cells: never raises.
Div(a, b) ==
    IF IsNaN(a) \/ IsNaN(b) THEN NaN
    ELSE IF ~IsFinite(a) /\ ~IsFinite(b) THEN NaN
    ELSE IF ~IsFinite(a) THEN <<a[1] * (IF b[1] < 0 THEN -1 ELSE 1), 0>>
    ELSE IF ~IsFinite(b) THEN Zero
    ELSE IF b[1] = 0 THEN <<Sgn(a[1]), 0>>
    ELSE Norm(a[1] * b[2], a[2] * b[1])

\* a <= b; false when either side is NaN.
Leq(a, b) ==
    IF IsNaN(a) \/ IsNaN(b) THEN FALSE
    ELSE IF ~IsFinite(a) \/ ~IsFinite(b)
         THEN a = b \/ a = NegInf \/ b = PosInf
    ELSE a[1] * b[2] <= b[1] * a[2]

Lt(a, b) == Leq(a, b) /\ a # b

\* ------------------------------------------------------------ polars pieces
\* The error pl.DataFrame raises when its columns differ in length.
ShapeError == "ShapeError"

NoError == "none"

Min(S) == CHOOSE m \in S : \A x \in S : m <= x

\* .sort("times"): the keys in ascending order.
RECURSIVE sort(_)
sort(S) == IF S = {} THEN <<>> ELSE <<Min(S)>> \o sort(S \ {Min(S)})

\* Mutant of DataFrame: a series of length 1 is broadcast to the height of
\* the longest series.
DataFrame_broadcast(times_, reals_, weights_) ==
    LET h == IF Len(times_) >= Len(reals_) /\ Len(times_) >= Len(weights_)
             THEN Len(times_)
             ELSE IF Len(reals_) >= Len(weights_) THEN Len(reals_)
             ELSE Len(weights_)
        fits(col) == Len(col) = h \/ Len(col) = 1
        wide(col) == IF Len(col) = h THEN col ELSE [i \in 1..h |-> col[1]]
    IN  IF fits(times_) /\ fits(reals_) /\ fits(weights_)
        THEN [raised |-> NoError, times |-> wide(times_),
              reals |-> wide(reals_), weights |-> wide(weights_)]
        ELSE [raised |-> ShapeError, times |-> <<>>, reals |-> <<>>,
              weights |-> <<>>]

\* pl.DataFrame({"times": times, "reals": reals, "weights": weights}):
\* the columns are taken as given, and columns of different lengths raise.
DataFrame(times_, reals_, weights_) ==
    IF Len(times_) = Len(reals_) /\ Len(reals_) = Len(weights_)
    THEN [raised |-> NoError, times |-> times_, reals |-> reals_,
          weights |-> weights_]
    ELSE [raised |-> ShapeError, times |-> <<>>, reals |-> <<>>,
          weights |-> <<>>]

\* Mutant of when_then_otherwise_sum: .last() in place of .sum().
RECURSIVE when_then_otherwise_last(_, _, _, _)
when_then_otherwise_last(df, t, k, i) ==
    IF i = 0 THEN Zero
    ELSE IF df.times[i] # t THEN when_then_otherwise_last(df, t, k, i - 1)
    ELSE IF df.reals[i] = k THEN df.weights[i] ELSE Zero

\* pl.when(pl.col("reals") == k).then(pl.col("weights")).otherwise(0).sum()
\* over the rows of the group whose key is t, taken in row order up to row i.
RECURSIVE when_then_otherwise_sum(_, _, _, _)
when_then_otherwise_sum(df, t, k, i) ==
    IF i = 0 THEN Zero
    ELSE LET rest == when_then_otherwise_sum(df, t, k, i - 1)
         IN  IF df.times[i] # t THEN rest
             ELSE Add(rest, IF df.reals[i] = k THEN df.weights[i] ELSE Zero)

\* Mutant of group_keys: the .sort("times") is missing and the groups come
\* in order of first appearance.
RECURSIVE FirstAppearance(_, _)
FirstAppearance(col, i) ==
    IF i = 0 THEN <<>>
    ELSE LET before == FirstAppearance(col, i - 1)
         IN  IF \E j \in 1..(i - 1) : col[j] = col[i] THEN before
             ELSE Append(before, col[i])

group_keys_unsorted(df) == FirstAppearance(df.times, Len(df.times))

\* The keys of df.group_by("times") ... .sort("times").
group_keys(df) == sort({df.times[i] : i \in 1..Len(df.times)})

\* Mutant of group_by_agg: count_2 tests reals == 1, a copied line.
group_by_agg_copied(df) ==
    LET keys == group_keys(df)
        agg(k) == [g \in 1..Len(keys) |->
                     when_then_otherwise_sum(df, keys[g], k, Len(df.times))]
    IN  [times |-> keys, count_0 |-> agg(0), count_1 |-> agg(1),
         count_2 |-> agg(1)]

\* df.group_by("times").agg([count_0, count_1, count_2]).sort("times")
group_by_agg(df) ==
    LET keys == group_keys(df)
        agg(k) == [g \in 1..Len(keys) |->
                     when_then_otherwise_sum(df, keys[g], k, Len(df.times))]
    IN  [times |-> keys, count_0 |-> agg(0), count_1 |-> agg(1),
         count_2 |-> agg(2)]

Reverse(col) == [i \in 1..Len(col) |-> col[Len(col) + 1 - i]]

\* The first i cells of Series.cum_sum(): the running sum.
RECURSIVE SumTo(_, _)
SumTo(col, i) ==
    IF i = 0 THEN <<>>
    ELSE IF i = 1 THEN <<col[1]>>
    ELSE LET before == SumTo(col, i - 1)
         IN  Append(before, Add(before[i - 1], col[i]))

cum_sum(col) == SumTo(col, Len(col))

\* Series.cum_sum(reverse=True): the running sum taken from the last row.
cum_sum_reverse(col) == Reverse(cum_sum(Reverse(col)))

\* The first i cells of Series.cum_prod(): the running product.
RECURSIVE ProdTo(_, _)
ProdTo(col, i) ==
    IF i = 0 THEN <<>>
    ELSE IF i = 1 THEN <<col[1]>>
    ELSE LET before == ProdTo(col, i - 1)
         IN  Append(before, Mul(before[i - 1], col[i]))

cum_prod(col) == ProdTo(col, Len(col))

\* Series.shift(1, fill_value=fill): row i takes row i-1, the first row fill.
shift(col, fill) ==
    [i \in 1..Len(col) |-> IF i = 1 THEN fill ELSE col[i - 1]]

\* ------------------------------------------------- the derived columns
events_at_times(g) ==
    [i \in 1..Len(g.times) |->
       Add(Add(g.count_0[i], g.count_1[i]), g.count_2[i])]

\* Mutant of at_risk: cum_sum without reverse=True.
at_risk_forward(events) == cum_sum(events)

at_risk(events) == cum_sum_reverse(events)

\* Mutant of csh: the risk set counts one subject too many.
csh_plus_one(count, risk) ==
    [i \in 1..Len(count) |-> Div(count[i], Add(risk[i], One))]

csh(count, risk) == [i \in 1..Len(count) |-> Div(count[i], risk[i])]

\* Mutant of conditional_survival: csh_2 is added instead of subtracted.
conditional_survival_sign(csh_1, csh_2) ==
    [i \in 1..Len(csh_1) |-> Add(Sub(One, csh_1[i]), csh_2[i])]

conditional_survival(csh_1, csh_2) ==
    [i \in 1..Len(csh_1) |-> Sub(Sub(One, csh_1[i]), csh_2[i])]

\* Mutant of overall_survival: cum_sum in place of cum_prod.
overall_survival_sum(cs) == cum_sum(cs)

overall_survival(cs) == cum_prod(cs)

\* Mutant of previous_overall_survival: the shift is filled with 0.
previous_overall_survival_fill0(os) == shift(os, Zero)

previous_overall_survival(os) == shift(os, One)

transition_prob(hazard, prev) ==
    [i \in 1..Len(hazard) |-> Mul(hazard[i], prev[i])]

cif(tp) == cum_sum(tp)

\* ------------------------------------------------------- the function
\* The table weighted_aalen_johansen builds from a well-formed frame.
events_data(df) ==
    LET g == group_by_agg(df)
        ev == events_at_times(g)
        risk == at_risk(ev)
        csh_1 == csh(g.count_1, risk)
        csh_2 == csh(g.count_2, risk)
        cs == conditional_survival(csh_1, csh_2)
        os == overall_survival(cs)
        prev == previous_overall_survival(os)
        tp_1 == transition_prob(csh_1, prev)
        tp_2 == transition_prob(csh_2, prev)
    IN  [times |-> g.times, count_0 |-> g.count_0, count_1 |-> g.count_1,
         count_2 |-> g.count_2, events_at_times |-> ev, at_risk |-> risk,
         csh_1 |-> csh_1, csh_2 |-> csh_2, conditional_survival |-> cs,
         overall_survival |-> os, previous_overall_survival |-> prev,
         transition_prob_1 |-> tp_1, transition_prob_2 |-> tp_2,
         cif_1 |-> cif(tp_1), cif_2 |-> cif(tp_2)]

\* The outcome of a call: the error raised, or the table returned.
weighted_aalen_johansen(times_, reals_, weights_) ==
    LET df == DataFrame(times_, reals_, weights_)
    IN  IF df.raised # NoError
        THEN [raised |-> df.raised, table |-> <<>>]
        ELSE [raised |-> NoError, table |-> events_data(df)]

\* ------------------------------------------------------------- the inputs
Times == {1, 2, 3}

\* 0 censored, 1 event of interest, 2 competing event.
Codes == {0, 1, 2}

\* 3 is a code the function is not meant for; it is not rejected.
AnyCodes == Codes \cup {3}

\* Non-negative weights.
Weights == {Zero, One, <<2, 1>>}

\* A negative weight is not rejected either.
AnyWeights == Weights \cup {<<-1, 1>>}

SeqsUpTo(S, n) == UNION {[1..k -> S] : k \in 0..n}

\* ------------------------------------------------------------------ state
VARIABLES times, reals, weights, pc, result

vars == <<times, reals, weights, pc, result>>

Ready ==
    /\ pc = "ready"
    /\ result = [raised |-> NoError, table |-> <<>>]

\* The calls the repository's tests make (tests/test_survival.py).
Ones(n) == [i \in 1..n |-> One]

Scenarios ==
    { <<<<1, 2, 3, 4, 5>>, <<1, 0, 1, 2, 0>>, Ones(5)>>,
      <<<<1, 2, 3, 4, 5>>, <<1, 0, 1, 1, 0>>, Ones(5)>>,
      <<<<1, 2, 3, 4, 5>>, <<1, 0, 1, 2, 0>>,
        <<<<1, 2>>, <<3, 2>>, <<4, 5>>, <<6, 5>>, <<9, 10>>>>>>,
      <<<<1, 2, 3>>, <<1, 2, 0>>, Ones(3)>> }

\* Every call with up to MaxN aligned observations from the function's
\* domain, and the calls of the tests.
Init ==
    /\ \/ \E n \in 0..MaxN :
            /\ times \in [1..n -> Times]
            /\ reals \in [1..n -> Codes]
            /\ weights \in [1..n -> Weights]
       \/ \E s \in Scenarios :
            /\ times = s[1]
            /\ reals = s[2]
            /\ weights = s[3]
    /\ Ready

\* Any three series of up to MaxLen cells each, aligned or not, in or out
\* of the function's domain, and the calls of the tests.
InitAny ==
    /\ \/ /\ times \in SeqsUpTo(Times, MaxLen)
          /\ reals \in SeqsUpTo(AnyCodes, MaxLen)
          /\ weights \in SeqsUpTo(AnyWeights, MaxLen)
       \/ \E s \in Scenarios :
            /\ times = s[1]
            /\ reals = s[2]
            /\ weights = s[3]
    /\ Ready

Call ==
    /\ pc = "ready"
    /\ result' = weighted_aalen_johansen(times, reals, weights)
    /\ pc' = "done"
    /\ UNCHANGED <<times, reals, weights>>

Next == Call

Spec == Init /\ [][Next]_vars

SpecAny == InitAny /\ [][Next]_vars

\* --------------------------------------------------- reading the outcome
Done == pc = "done"

Aligned == Len(times) = Len(reals) /\ Len(reals) = Len(weights)

\* The call returned a table.
Returned == Done /\ result.raised = NoError

Table == result.table

Rows == 1..Len(Table.times)

ValidCodes == \A j \in 1..Len(reals) : reals[j] \in {0, 1, 2}

NonNegativeWeights == \A j \in 1..Len(weights) : Leq(Zero, weights[j])

RiskPositive == \A i \in Rows : Lt(Zero, Table.at_risk[i])

DistinctTimes == {times[j] : j \in 1..Len(times)}

\* ------------------------------------------------------------------ C1
\* C1 (partition of unity): whenever the returned table has at_risk > 0 at
\* every row, every row has overall_survival + cif_1 + cif_2 = 1.
C1_PartitionOfUnity ==
    (Returned /\ RiskPositive) =>
        \A i \in Rows :
            Add(Add(Table.overall_survival[i], Table.cif_1[i]),
                Table.cif_2[i]) = One

\* Three rows, both causes have occurred and some survival is left.
C1_Witness ==
    /\ Returned /\ RiskPositive /\ Len(Table.times) = 3
    /\ \E i \in Rows :
        /\ Lt(Zero, Table.cif_1[i])
        /\ Lt(Zero, Table.cif_2[i])
        /\ Lt(Zero, Table.overall_survival[i])

\* ------------------------------------------------------------------ C2
\* The single ascending scan of the specification (4.1), computed from the
\* raw observations: the weight of a set of observations,
RECURSIVE WeightOf(_)
WeightOf(J) ==
    IF J = {} THEN Zero
    ELSE LET j == CHOOSE x \in J : TRUE
         IN  Add(weights[j], WeightOf(J \ {j}))

\* the distinct times in ascending order,
RECURSIVE Ascending(_)
Ascending(S) ==
    IF S = {} THEN <<>>
    ELSE LET m == CHOOSE t \in S : \A u \in S : t <= u
         IN  <<m>> \o Ascending(S \ {m})

\* and the rows of the scan over times T[1..i], newest last.  The
\* accumulator S starts at 1 and is read (as previous_overall_survival)
\* before it is multiplied.
RECURSIVE Scan(_, _)
Scan(T, i) ==
    IF i = 0 THEN <<>>
    ELSE LET before == Scan(T, i - 1)
             S == IF i = 1 THEN One ELSE before[i - 1].overall_survival
             F1 == IF i = 1 THEN Zero ELSE before[i - 1].cif_1
             F2 == IF i = 1 THEN Zero ELSE before[i - 1].cif_2
             J == 1..Len(times)
             count(k) == WeightOf({j \in J : times[j] = T[i] /\ reals[j] = k})
             c0 == count(0)
             c1 == count(1)
             c2 == count(2)
             risk == WeightOf({j \in J : times[j] >= T[i]})
             h1 == Div(c1, risk)
             h2 == Div(c2, risk)
             cs == Sub(Sub(One, h1), h2)
         IN  Append(before,
                 [times |-> T[i],
                  count_0 |-> c0, count_1 |-> c1, count_2 |-> c2,
                  events_at_times |-> Add(Add(c0, c1), c2),
                  at_risk |-> risk,
                  csh_1 |-> h1, csh_2 |-> h2,
                  conditional_survival |-> cs,
                  overall_survival |-> Mul(S, cs),
                  previous_overall_survival |-> S,
                  transition_prob_1 |-> Mul(h1, S),
                  transition_prob_2 |-> Mul(h2, S),
                  cif_1 |-> Add(F1, Mul(h1, S)),
                  cif_2 |-> Add(F2, Mul(h2, S))])

ReferenceScan == Scan(Ascending(DistinctTimes), Cardinality(DistinctTimes))

Columns ==
    {"times", "count_0", "count_1", "count_2", "events_at_times", "at_risk",
     "csh_1", "csh_2", "conditional_survival", "overall_survival",
     "previous_overall_survival", "transition_prob_1", "transition_prob_2",
     "cif_1", "cif_2"}

Third(n) == <<n, 3>>

\* C2 (reference scan): with codes in {0,1,2} and non-negative weights every
\* column of the returned table equals, row by row, the scan's value; and
\* times=[1,2,3], codes=[1,2,0], weights=[1,1,1] gives
\* overall_survival=[2/3,1/3,1/3], cif_1=[1/3,1/3,1/3], cif_2=[0,1/3,1/3].
C2_EqualsReferenceScan ==
    (Done /\ Aligned /\ ValidCodes /\ NonNegativeWeights) =>
        /\ result.raised = NoError
        /\ LET ref == ReferenceScan
           IN  \A c \in Columns :
                   /\ Len(Table[c]) = Len(ref)
                   /\ \A i \in 1..Len(ref) : Table[c][i] = ref[i][c]
        /\ (times = <<1, 2, 3>> /\ reals = <<1, 2, 0>>
                /\ weights = <<One, One, One>>) =>
               /\ Table.overall_survival = <<Third(2), Third(1), Third(1)>>
               /\ Table.cif_1 = <<Third(1), Third(1), Third(1)>>
               /\ Table.cif_2 = <<Zero, Third(1), Third(1)>>

\* The concrete scenario has been computed.
C2_Witness ==
    /\ Returned
    /\ times = <<1, 2, 3>> /\ reals = <<1, 2, 0>>
    /\ weights = <<One, One, One>>
    /\ Table.previous_overall_survival = <<One, Third(2), Third(1)>>

InUnit(a) == Leq(Zero, a) /\ Leq(a, One)

AllColumnsHave(n) == \A c \in Columns : Len(Table[c]) = n

\* C5 (row structure): a call with aligned series of any length N >= 0
\* returns a table with exactly one row per distinct value of times, the
\* times column strictly ascending; N = 0 gives 0 rows and no error.
C5_RowStructure ==
    (Done /\ Aligned) =>
        /\ result.raised = NoError
        /\ AllColumnsHave(Cardinality(DistinctTimes))
        /\ {Table.times[i] : i \in Rows} = DistinctTimes
        /\ \A i \in Rows : (i + 1 \in Rows) => Table.times[i] < Table.times[i + 1]
        /\ (Len(times) = 0) => Len(Table.times) = 0

\* Observations given out of time order: the rows are not in input order.
C5_Witness ==
    /\ Returned
    /\ Len(times) >= 2
    /\ times[1] > times[2]
    /\ Len(Table.times) = 2
    /\ Table.times[1] = times[2]

\* ------------------------------------------------------------------ C6
Permute(col, p) == [i \in 1..Len(col) |-> col[p[i]]]

\* C6 (input-order independence): the same permutation applied to the three
\* aligned series gives a result identical in every column and row.
C6_OrderIndependent ==
    (Done /\ Aligned) =>
        \A p \in Permutations(1..Len(times)) :
            weighted_aalen_johansen(Permute(times, p), Permute(reals, p),
                                    Permute(weights, p)) = result

\* A call with two observations that share a time and differ in code and
\* in weight.
C6_Witness ==
    /\ Returned
    /\ \E i, j \in 1..Len(times) :
        /\ i < j /\ times[i] = times[j]
        /\ reals[i] # reals[j] /\ weights[i] # weights[j]
        /\ Lt(Zero, weights[i]) /\ Lt(Zero, weights[j])

\* ------------------------------------------------------------------ C7
\* 1 - product over j <= i of (1 - count_1[j] / at_risk[j]).
RECURSIVE SingleCauseSurvival(_)
SingleCauseSurvival(i) ==
    IF i = 0 THEN One
    ELSE Mul(SingleCauseSurvival(i - 1),
             Sub(One, Div(Table.count_1[i], Table.at_risk[i])))

\* C7 (no competing events): with codes in {0,1}, non-negative weights and
\* at_risk > 0 at every row, cif_2 is 0 at every row and cif_1 is the
\* single-cause curve 1 - prod(1 - count_1/at_risk) = 1 - overall_survival.
C7_NoCompetingEvents ==
    (Returned /\ NonNegativeWeights /\ RiskPositive
        /\ \A j \in 1..Len(reals) : reals[j] \in {0, 1}) =>
        \A i \in Rows :
            /\ Table.cif_2[i] = Zero
            /\ Table.cif_1[i] = Sub(One, SingleCauseSurvival(i))
            /\ Table.cif_1[i] = Sub(One, Table.overall_survival[i])

\* Events of interest at two rows, with censoring in between.
C7_Witness ==
    /\ Returned /\ NonNegativeWeights /\ RiskPositive
    /\ \A j \in 1..Len(reals) : reals[j] \in {0, 1}
    /\ Len(Table.times) >= 2
    /\ Lt(Zero, Table.cif_1[1])
    /\ Lt(Table.cif_1[1], Table.cif_1[Len(Table.times)])
    /\ Lt(Table.cif_1[Len(Table.times)], One)

\* ------------------------------------------------------------------ C8
\* The positive constants the weights are multiplied by.
Scales == {<<1, 2>>, <<3, 1>>}

Scaled(col, c) == [i \in 1..Len(col) |-> Mul(c, col[i])]

RatioColumns ==
    {"csh_1", "csh_2", "conditional_survival", "overall_survival", "cif_1",
     "cif_2"}

WeightColumns ==
    {"count_0", "count_1", "count_2", "events_at_times", "at_risk"}

\* C8 (weight-scale invariance): when at_risk > 0 at every row, multiplying
\* all weights by a positive constant c leaves csh_1, csh_2,
\* conditional_survival, overall_survival, cif_1 and cif_2 unchanged and
\* multiplies count_0, count_1, count_2, events_at_times and at_risk by c.
C8_WeightScaleInvariant ==
    (Returned /\ RiskPositive) =>
        \A c \in Scales :
            LET scaled == weighted_aalen_johansen(times, reals,
                                                  Scaled(weights, c))
            IN  /\ scaled.raised = NoError
                /\ \A col \in RatioColumns : scaled.table[col] = Table[col]
                /\ \A col \in WeightColumns :
                       scaled.table[col] = Scaled(Table[col], c)

\* Unequal weights, both causes, hazards strictly inside (0,1).
C8_Witness ==
    /\ Returned /\ RiskPositive
    /\ \E i, j \in 1..Len(weights) : weights[i] # weights[j]
    /\ \E i \in Rows :
        /\ Lt(Zero, Table.csh_1[i]) /\ Lt(Table.csh_1[i], One)
    /\ \E i \in Rows :
        /\ Lt(Zero, Table.csh_2[i]) /\ Lt(Table.csh_2[i], One)

NaNColumns ==
    {"csh_1", "csh_2", "conditional_survival", "overall_survival",
     "transition_prob_1", "transition_prob_2", "cif_1", "cif_2"}

ZeroRiskRows == {i \in Rows : Table.at_risk[i] = Zero}

\* The observations made before time t, as a call's three series.
Before(col, t) ==
    LET keep == SelectSeq([j \in 1..Len(times) |-> j],
                          LAMBDA j : times[j] < t)
    IN  [i \in 1..Len(keep) |-> col[keep[i]]]

\* C10 (zero risk set): with non-negative weights, a call whose table has
\* at_risk = 0 at some row still returns the full table; from the first
\* such row on, csh_1, csh_2, conditional_survival, overall_survival,
\* transition_prob_1, transition_prob_2, cif_1 and cif_2 are NaN, and every
\* earlier row holds the ordinary numbers: those of the call without the
\* observations of the zero-risk rows.
C10_ZeroRiskPropagates ==
    (Done /\ Aligned /\ NonNegativeWeights) =>
        /\ result.raised = NoError
        /\ AllColumnsHave(Cardinality(DistinctTimes))
        /\ (ZeroRiskRows # {}) =>
            LET z == CHOOSE y \in ZeroRiskRows : \A x \in ZeroRiskRows : y <= x
                t == Table.times[z]
                ordinary == weighted_aalen_johansen(
                                Before(times, t), Before(reals, t),
                                Before(weights, t)).table
            IN  \A i \in Rows :
                    /\ (i >= z) => \A c \in NaNColumns : IsNaN(Table[c][i])
                    /\ (i < z) => \A c \in Columns :
                           /\ Table[c][i] = ordinary[c][i]
                           /\ c # "times" => IsFinite(Table[c][i])

\* A row with a positive risk set and events, then a row whose risk set is
\* empty.
C10_Witness ==
    /\ Returned /\ NonNegativeWeights
    /\ Len(Table.times) >= 2
    /\ Lt(Zero, Table.cif_1[1])
    /\ Table.at_risk[2] = Zero

====
